---- MODULE Spec2Model ----
(***************************************************************************)
(* ProxyMaster (src/test-proxy.py): the proxy validator                    *)
(* (ProxyValidator.test_proxy) and the engine that runs it over the        *)
(* collected candidates in a thread pool (ProxyMaster.fetch_proxies,       *)
(* test_proxies, save_results, select_best_proxy).                         *)
(*                                                                         *)
(* Units.  Elapsed times are whole milliseconds; the code's round(x, 2) of *)
(* a time in seconds is a rounding to whole centiseconds, and its          *)
(* round(x, 1) of a percentage is a rounding to whole tenths of a percent  *)
(* (66.6 % is 666).  Python rounds to the nearest value, an exact tie to   *)
(* the even one.                                                           *)
(***************************************************************************)
EXTENDS Integers, Sequences, FiniteSets, TLC

VARIABLES
    test_urls,      \* ProxyValidator.test_urls: the list of target URLs
    v_proxy,        \* test_proxy: its argument, <<>> while no call is modelled
    v_pc,           \* test_proxy: "off", "loop" (in the for loop), "returned"
    v_i,            \* test_proxy: the index in test_urls of the loop's next url
    v_outs,         \* what the requests of the call did, in the order made
    results,        \* test_proxy: the local list results
    total_time,     \* test_proxy: the local total_time (ms)
    success_count,  \* test_proxy: the local success_count
    v_ret,          \* test_proxy: the returned dict, <<>> before the return
    proxy_data,     \* ProxyMaster.proxy_data
    active_proxies, \* ProxyMaster.active_proxies
    current_proxy,  \* ProxyMaster.current_proxy: <<>> is None, else <<dict>>
    saved,          \* the JSON file this test cycle has written: <<>> or <<data>>
    futures,        \* test_proxies: the futures of the running call, by index
    pc,             \* the main thread: "idle", "collect" (in as_completed),
                    \* "acquire", "append", "release" (at and in the with block)
    cycles,         \* the number of test cycles started
    max_threads,    \* ProxyMaster.max_threads: the size of the test pool
    lock,           \* ProxyValidator.lock: "free", or the thread that holds it
    future          \* the as_completed loop's future, by index; 0 between passes

vars == <<test_urls, v_proxy, v_pc, v_i, v_outs, results, total_time, success_count, v_ret,
          proxy_data, active_proxies, current_proxy, saved, futures, pc, cycles,
          max_threads, lock, future>>

validatorVars == <<v_proxy, v_pc, v_i, v_outs, results, total_time, success_count, v_ret>>
engineVars == <<proxy_data, active_proxies, current_proxy, saved, futures, pc, cycles,
                max_threads, lock, future>>

(***************************************************************************)
(* Bounds of the model.                                                    *)
(***************************************************************************)
MaxTargets == 3     \* the longest test_urls list the validator is run on
MaxRatioTargets == 288  \* the longest list the status policy is evaluated for
MaxProxies == 2     \* the most candidates proxy_data grows to
MaxCycles == 2      \* the most test cycles of one behaviour
MaxWorkers == 2     \* the largest max_threads of the modelled pool (MAX_THREADS is 50)

(***************************************************************************)
(* Program constants.                                                      *)
(***************************************************************************)
NoTime == -1            \* 'response_time': -1
ActiveRate == 666       \* success_rate >= 66.6
OkCode == 200           \* response.status_code == 200

Endpoints == {1, 2}             \* the ip:port pairs a provider may list
Elapsed == {123, 337}           \* elapsed times of a request, in ms
ErrorCodes == {404}             \* status codes other than 200

\* Python's round(): to the nearest, an exact tie to the even neighbour
\* (num >= 0, den > 0).
RoundHalfEven(num, den) ==
    LET q == num \div den
        r == num % den
    IN  IF 2 * r > den \/ (2 * r = den /\ q % 2 = 1) THEN q + 1 ELSE q

\* The default list of three target URLs, and a list of n of them.
DefaultTestUrls == <<1, 2, 3>>
Urls(n) == [i \in 1..n |-> i]

\* A candidate as SSLProxiesProvider.fetch_proxies builds it.
Candidate(ip) ==
    [ip |-> ip, success |-> FALSE, response_time |-> NoTime,
     status |-> "untested", error |-> {}]

\* What one requests.get through the proxy may do: answer with a status
\* code after some time, or raise.
ProbeOutcomes ==
    [kind : {"response"}, code : {OkCode}, elapsed : Elapsed]
    \cup [kind : {"response"}, code : ErrorCodes, elapsed : {123}]
    \cup [kind : {"ProxyError", "ConnectTimeout", "SSLError", "ReadTimeout", "Other"},
          code : {0}, elapsed : {0}]

\* f"HTTP {response.status_code}"
HttpError(code) == IF code = 404 THEN "HTTP 404" ELSE "HTTP ?"

\* str(e) of an exception no except clause names.
ExceptionText(kind) ==
    IF kind = "ReadTimeout" THEN "Read timed out." ELSE "Connection aborted."

\* The dict the loop body appends for one URL (error "" : no 'error' key,
\* status_code 0 : no 'status_code' key).
ProbeResult(url, out) ==
    IF out.kind = "response"
    THEN IF out.code = OkCode
         THEN [url |-> url, success |-> TRUE,
               response_time |-> RoundHalfEven(out.elapsed, 10),
               status_code |-> out.code, error |-> ""]
         ELSE [url |-> url, success |-> FALSE, response_time |-> NoTime,
               status_code |-> out.code, error |-> HttpError(out.code)]
    ELSE [url |-> url, success |-> FALSE, response_time |-> NoTime,
          status_code |-> 0,
          error |-> CASE out.kind = "ProxyError" -> "Proxy Error"
                      [] out.kind = "ConnectTimeout" -> "Timeout"
                      [] out.kind = "SSLError" -> "SSL Error"
                      [] OTHER -> ExceptionText(out.kind)]

ProbeSucceeded(out) == out.kind = "response" /\ out.code = OkCode

\* Mutant of LoopBody: a request that failed leaves no test outcome.
LoopBodySkippingFailures(loc, url, out) ==
    IF ProbeSucceeded(out)
    THEN [results |-> Append(loc.results, ProbeResult(url, out)),
          total_time |-> loc.total_time + out.elapsed,
          success_count |-> loc.success_count + 1]
    ELSE loc

\* Mutant of LoopBody: the time of every answer is added, whatever its status code.
LoopBodyTimingAll(loc, url, out) ==
    [results |-> Append(loc.results, ProbeResult(url, out)),
     total_time |-> IF out.kind = "response" THEN loc.total_time + out.elapsed
                    ELSE loc.total_time,
     success_count |-> IF ProbeSucceeded(out) THEN loc.success_count + 1
                       ELSE loc.success_count]

\* One pass of the for loop over the locals [results, total_time, success_count].
LoopBody(loc, url, out) ==
    [results |-> Append(loc.results, ProbeResult(url, out)),
     total_time |-> IF ProbeSucceeded(out) THEN loc.total_time + out.elapsed
                    ELSE loc.total_time,
     success_count |-> IF ProbeSucceeded(out) THEN loc.success_count + 1
                       ELSE loc.success_count]

Max(a, b) == IF a >= b THEN a ELSE b

\* avg_time = round(total_time / max(1, success_count), 2) if success_count > 0 else -1
AvgTime(total, count) ==
    IF count > 0 THEN RoundHalfEven(total, 10 * Max(1, count)) ELSE NoTime

\* Mutant of SuccessRate: the rate is cut to a tenth of a percent, not rounded.
SuccessRateTruncated(count, n) == (1000 * count) \div n

\* success_rate = round(success_count / len(self.test_urls) * 100, 1)
SuccessRate(count, n) == RoundHalfEven(1000 * count, n)

\* 'success': success_rate >= 66.6
IsSuccess(rate) == rate >= ActiveRate

\* Mutant of StatusOf: 'active' is "more than half".
StatusOfMajority(rate) ==
    IF rate > 500 THEN "active"
    ELSE IF rate > 0 THEN "unreliable" ELSE "dead"

\* 'status': 'active' if success_rate >= 66.6 else 'unreliable' if success_rate > 0 else 'dead'
StatusOf(rate) ==
    IF rate >= ActiveRate THEN "active"
    ELSE IF rate > 0 THEN "unreliable" ELSE "dead"

\* ', '.join(set(...)): the distinct errors of the failed probes.
ErrorSummary(res) == {res[i].error : i \in {j \in 1..Len(res) : res[j].error # ""}}

\* The dict test_proxy returns.
ReturnValue(proxy, loc, n) ==
    [ip |-> proxy.ip,
     test_details |-> loc.results,
     success |-> IsSuccess(SuccessRate(loc.success_count, n)),
     success_rate |-> SuccessRate(loc.success_count, n),
     response_time |-> AvgTime(loc.total_time, loc.success_count),
     status |-> StatusOf(SuccessRate(loc.success_count, n)),
     error |-> ErrorSummary(loc.results)]

EmptyLocals == [results |-> <<>>, total_time |-> 0, success_count |-> 0]

RECURSIVE RunLoop(_, _, _, _)
RunLoop(loc, urls, outs, i) ==
    IF i > Len(urls) THEN loc
    ELSE RunLoop(LoopBody(loc, urls[i], outs[i]), urls, outs, i + 1)

\* test_proxy as a function of the proxy, the URL list and what each request does.
TestProxy(proxy, urls, outs) ==
    ReturnValue(proxy, RunLoop(EmptyLocals, urls, outs, 1), Len(urls))

(***************************************************************************)
(* ProxyValidator.test_proxy, one request at a time.                       *)
(***************************************************************************)
EngineOff ==
    /\ proxy_data = <<>> /\ active_proxies = <<>> /\ current_proxy = <<>>
    /\ saved = <<>> /\ futures = <<>> /\ pc = "off" /\ cycles = 0
    /\ max_threads = 0 /\ lock = "free" /\ future = 0

ValidatorInit ==
    /\ test_urls \in {Urls(n) : n \in 1..MaxTargets}
    /\ v_proxy \in {<<Candidate(ip)>> : ip \in Endpoints}
    /\ v_pc = "loop"
    /\ v_i = 1
    /\ v_outs = <<>>
    /\ results = <<>>
    /\ total_time = 0
    /\ success_count = 0
    /\ v_ret = <<>>
    /\ EngineOff

Probe(out) ==
    /\ v_pc = "loop"
    /\ v_i <= Len(test_urls)
    /\ LET loc == LoopBody([results |-> results, total_time |-> total_time,
                            success_count |-> success_count],
                           test_urls[v_i], out)
       IN  /\ results' = loc.results
           /\ total_time' = loc.total_time
           /\ success_count' = loc.success_count
    /\ v_i' = v_i + 1
    /\ v_outs' = Append(v_outs, out)
    /\ UNCHANGED <<test_urls, v_proxy, v_pc, v_ret>>
    /\ UNCHANGED engineVars

Return ==
    /\ v_pc = "loop"
    /\ v_i > Len(test_urls)
    /\ v_ret' = <<ReturnValue(v_proxy[1],
                              [results |-> results, total_time |-> total_time,
                               success_count |-> success_count],
                              Len(test_urls))>>
    /\ v_pc' = "returned"
    /\ UNCHANGED <<test_urls, v_proxy, v_i, v_outs, results, total_time, success_count>>
    /\ UNCHANGED engineVars

ValidatorNext ==
    \/ \E out \in ProbeOutcomes : Probe(out)
    \/ Return

SpecValidator == ValidatorInit /\ [][ValidatorNext]_vars

(***************************************************************************)
(* ProxyMaster: fetch_proxies, test_proxies, save_results,                 *)
(* select_best_proxy.                                                      *)
(***************************************************************************)

\* What the three requests of one test_proxy call do, in the engine's runs:
\* all answer fast, all answer slowly, two of three answer, one of three
\* answers, none answers.
OkIn(ms) == [kind |-> "response", code |-> OkCode, elapsed |-> ms]
Raises(kind) == [kind |-> kind, code |-> 0, elapsed |-> 0]
EngineRuns ==
    { <<OkIn(123), OkIn(123), OkIn(123)>>,
      <<OkIn(337), OkIn(337), OkIn(337)>>,
      <<OkIn(123), Raises("ConnectTimeout"), OkIn(123)>>,
      <<OkIn(123), Raises("ProxyError"), [kind |-> "response", code |-> 404, elapsed |-> 123]>>,
      <<Raises("ConnectTimeout"), Raises("SSLError"), Raises("ReadTimeout")>> }

\* The lists the providers of one fetch_proxies call return, concatenated in
\* the order in which their futures complete.
RECURSIVE SeqsUpTo(_, _)
SeqsUpTo(S, n) ==
    IF n = 0 THEN {<<>>}
    ELSE SeqsUpTo(S, n - 1)
         \cup {Append(s, x) : s \in {t \in SeqsUpTo(S, n - 1) : Len(t) = n - 1}, x \in S}

Batches == SeqsUpTo(Endpoints, MaxProxies)

\* The sort key of select_best_proxy: (-success_rate, response_time),
\* compared as Python compares tuples.
KeyLess(a, b) ==
    \/ -a.success_rate < -b.success_rate
    \/ (-a.success_rate = -b.success_rate /\ a.response_time < b.response_time)

\* Mutant of InsertByKey: an element goes before the elements of equal key.
InsertByKeyTiesFirst(s, x) ==
    LET later == {i \in 1..Len(s) : ~KeyLess(s[i], x)}
        at == IF later = {} THEN Len(s) + 1
              ELSE CHOOSE i \in later : \A j \in later : i <= j
    IN  SubSeq(s, 1, at - 1) \o <<x>> \o SubSeq(s, at, Len(s))

\* list.sort(key=...) is stable: an element goes after every element whose
\* key is not greater than its own.
InsertByKey(s, x) ==
    LET later == {i \in 1..Len(s) : KeyLess(x, s[i])}
        at == IF later = {} THEN Len(s) + 1
              ELSE CHOOSE i \in later : \A j \in later : i <= j
    IN  SubSeq(s, 1, at - 1) \o <<x>> \o SubSeq(s, at, Len(s))

RECURSIVE SortByKey(_)
SortByKey(s) ==
    IF s = <<>> THEN <<>>
    ELSE InsertByKey(SortByKey(SubSeq(s, 1, Len(s) - 1)), s[Len(s)])

\* The data save_results dumps (metadata and user_info left out).
Snapshot(pd, act, cur) ==
    [proxies |-> pd, active_proxies |-> act, current_proxy |-> cur]

\* select_best_proxy: the new active_proxies and current_proxy.
SelectedActive(act) == IF act = <<>> THEN act ELSE SortByKey(act)
SelectedCurrent(act, cur) == IF act = <<>> THEN cur ELSE <<SortByKey(act)[1]>>

\* The future of a submitted test_proxy call.
NewFuture == [state |-> "queued", result |-> <<>>, collected |-> FALSE]

\* What the as_completed loop appends for a completed future.
Collected(act, f) ==
    IF f.state = "done" /\ f.result[1].success THEN Append(act, f.result[1]) ELSE act

ValidatorOff ==
    /\ v_proxy = <<>> /\ v_pc = "off" /\ v_i = 0 /\ v_outs = <<>>
    /\ results = <<>> /\ total_time = 0
    /\ success_count = 0 /\ v_ret = <<>>

Init ==
    /\ test_urls = DefaultTestUrls
    /\ ValidatorOff
    /\ proxy_data = <<>>
    /\ active_proxies = <<>>
    /\ current_proxy = <<>>
    /\ saved = <<>>
    /\ futures = <<>>
    /\ pc = "idle"
    /\ cycles = 0
    /\ max_threads \in 1..MaxWorkers
    /\ lock = "free"
    /\ future = 0

FetchProxies(batch) ==
    /\ pc = "idle"
    /\ Len(proxy_data) + Len(batch) <= MaxProxies
    /\ proxy_data' = proxy_data \o [i \in 1..Len(batch) |-> Candidate(batch[i])]
    /\ UNCHANGED <<active_proxies, current_proxy, saved, futures, pc, cycles>>
    /\ UNCHANGED <<test_urls, max_threads, lock, future, validatorVars>>

\* test_proxies with nothing to test: the early return.
TestProxiesEmpty ==
    /\ pc = "idle"
    /\ proxy_data = <<>>
    /\ UNCHANGED vars

\* Mutant of TestProxiesStart: active_proxies is not reset.
TestProxiesStartKeeping ==
    /\ pc = "idle"
    /\ proxy_data # <<>>
    /\ cycles < MaxCycles
    /\ futures' = [i \in 1..Len(proxy_data) |-> NewFuture]
    /\ pc' = "collect"
    /\ cycles' = cycles + 1
    /\ saved' = <<>>
    /\ UNCHANGED <<proxy_data, active_proxies, current_proxy>>
    /\ UNCHANGED <<test_urls, max_threads, lock, future, validatorVars>>

\* test_proxies up to the as_completed loop: the reset and the submissions.
TestProxiesStart ==
    /\ pc = "idle"
    /\ proxy_data # <<>>
    /\ cycles < MaxCycles
    /\ active_proxies' = <<>>
    /\ futures' = [i \in 1..Len(proxy_data) |-> NewFuture]
    /\ pc' = "collect"
    /\ cycles' = cycles + 1
    /\ saved' = <<>>      \* each cycle writes a file of its own (timestamped) name
    /\ UNCHANGED <<proxy_data, current_proxy>>
    /\ UNCHANGED <<test_urls, max_threads, lock, future, validatorVars>>

Running == {i \in 1..Len(futures) : futures[i].state = "running"}

\* The main thread is inside test_proxies, the pool is up.
InCycle == pc \in {"collect", "acquire", "append", "release"}

\* Mutant of WorkerTake: a call starts whether or not a worker is free.
WorkerTakeUnbounded(i) ==
    /\ InCycle
    /\ futures[i].state = "queued"
    /\ \A j \in 1..(i - 1) : futures[j].state # "queued"
    /\ futures' = [futures EXCEPT ![i].state = "running"]
    /\ UNCHANGED <<proxy_data, active_proxies, current_proxy, saved, pc, cycles>>
    /\ UNCHANGED <<test_urls, max_threads, lock, future, validatorVars>>

\* A free worker of the pool takes the oldest queued call.
WorkerTake(i) ==
    /\ InCycle
    /\ futures[i].state = "queued"
    /\ \A j \in 1..(i - 1) : futures[j].state # "queued"
    /\ Cardinality(Running) < max_threads
    /\ futures' = [futures EXCEPT ![i].state = "running"]
    /\ UNCHANGED <<proxy_data, active_proxies, current_proxy, saved, pc, cycles>>
    /\ UNCHANGED <<test_urls, max_threads, lock, future, validatorVars>>

\* The call returns its dict.
WorkerReturn(i, run) ==
    /\ InCycle
    /\ futures[i].state = "running"
    /\ futures' = [futures EXCEPT ![i].state = "done",
                                  ![i].result = <<TestProxy(proxy_data[i], test_urls, run)>>]
    /\ UNCHANGED <<proxy_data, active_proxies, current_proxy, saved, pc, cycles>>
    /\ UNCHANGED <<test_urls, max_threads, lock, future, validatorVars>>

\* The call raises: future.result() will raise in the main thread.
WorkerRaise(i) ==
    /\ InCycle
    /\ futures[i].state = "running"
    /\ futures' = [futures EXCEPT ![i].state = "raised"]
    /\ UNCHANGED <<proxy_data, active_proxies, current_proxy, saved, pc, cycles>>
    /\ UNCHANGED <<test_urls, max_threads, lock, future, validatorVars>>

\* Mutant of AcquireLock: the with block is entered without the lock.
AcquireLockSkipped ==
    /\ pc = "acquire"
    /\ pc' = "append"
    /\ UNCHANGED <<proxy_data, active_proxies, current_proxy, saved, futures, cycles>>
    /\ UNCHANGED <<test_urls, max_threads, lock, future, validatorVars>>

\* Mutant of Collect: as_completed hands over the futures that returned
\* only, never one whose call raised.
CollectReturnedOnly(i) ==
    /\ pc = "collect"
    /\ futures[i].state = "done"
    /\ ~futures[i].collected
    /\ IF Collected(active_proxies, futures[i]) = active_proxies
       THEN /\ futures' = [futures EXCEPT ![i].collected = TRUE]
            /\ UNCHANGED <<pc, future>>
       ELSE /\ pc' = "acquire"
            /\ future' = i
            /\ UNCHANGED futures
    /\ UNCHANGED <<proxy_data, active_proxies, current_proxy, saved, cycles>>
    /\ UNCHANGED <<test_urls, max_threads, lock, validatorVars>>

\* One pass of the as_completed loop, over a completed future, up to the
\* with statement: future.result() raises and the except clause ends the
\* pass, or the result is not a success and the pass ends, or the pass goes
\* on to append the result.
Collect(i) ==
    /\ pc = "collect"
    /\ futures[i].state \in {"done", "raised"}
    /\ ~futures[i].collected
    /\ IF Collected(active_proxies, futures[i]) = active_proxies
       THEN /\ futures' = [futures EXCEPT ![i].collected = TRUE]
            /\ UNCHANGED <<pc, future>>
       ELSE /\ pc' = "acquire"
            /\ future' = i
            /\ UNCHANGED futures
    /\ UNCHANGED <<proxy_data, active_proxies, current_proxy, saved, cycles>>
    /\ UNCHANGED <<test_urls, max_threads, lock, validatorVars>>

\* with self.validator.lock: the main thread takes the lock once it is free.
AcquireLock ==
    /\ pc = "acquire"
    /\ lock = "free"
    /\ lock' = "main"
    /\ pc' = "append"
    /\ UNCHANGED <<proxy_data, active_proxies, current_proxy, saved, futures, cycles>>
    /\ UNCHANGED <<test_urls, max_threads, future, validatorVars>>

\* self.active_proxies.append(result)
AppendResult ==
    /\ pc = "append"
    /\ active_proxies' = Collected(active_proxies, futures[future])
    /\ pc' = "release"
    /\ UNCHANGED <<proxy_data, current_proxy, saved, futures, cycles>>
    /\ UNCHANGED <<test_urls, max_threads, lock, future, validatorVars>>

\* The with block ends: the lock is released and the pass is over.
ReleaseLock ==
    /\ pc = "release"
    /\ lock' = "free"
    /\ futures' = [futures EXCEPT ![future].collected = TRUE]
    /\ future' = 0
    /\ pc' = "collect"
    /\ UNCHANGED <<proxy_data, active_proxies, current_proxy, saved, cycles>>
    /\ UNCHANGED <<test_urls, max_threads, validatorVars>>

\* The end of test_proxies: save_results(), then select_best_proxy().
TestProxiesFinish ==
    /\ pc = "collect"
    /\ \A i \in 1..Len(futures) : futures[i].collected
    /\ saved' = <<Snapshot(proxy_data, active_proxies, current_proxy)>>
    /\ active_proxies' = SelectedActive(active_proxies)
    /\ current_proxy' = SelectedCurrent(active_proxies, current_proxy)
    /\ pc' = "idle"
    /\ UNCHANGED <<proxy_data, futures, cycles>>
    /\ UNCHANGED <<test_urls, max_threads, lock, future, validatorVars>>

Next ==
    \/ \E batch \in Batches : FetchProxies(batch)
    \/ TestProxiesEmpty
    \/ TestProxiesStart
    \/ \E i \in 1..Len(futures) : WorkerTake(i)
    \/ \E i \in 1..Len(futures), run \in EngineRuns : WorkerReturn(i, run)
    \/ \E i \in 1..Len(futures) : WorkerRaise(i)
    \/ \E i \in 1..Len(futures) : Collect(i)
    \/ AcquireLock
    \/ AppendResult
    \/ ReleaseLock
    \/ TestProxiesFinish

Spec == Init /\ [][Next]_vars

\* A step of a thread inside test_proxies: the pool hands a queued call to a
\* free worker, a call ends (each request ends, by an answer, an error or
\* its timeout), or the main thread goes on through the as_completed loop
\* and the end of test_proxies.
CycleStep ==
    \/ \E i \in 1..Len(futures) : WorkerTake(i)
    \/ \E i \in 1..Len(futures), run \in EngineRuns : WorkerReturn(i, run)
    \/ \E i \in 1..Len(futures) : WorkerRaise(i)
    \/ \E i \in 1..Len(futures) : Collect(i)
    \/ AcquireLock
    \/ AppendResult
    \/ ReleaseLock
    \/ TestProxiesFinish

\* The engine with its threads scheduled: a thread that can take a step
\* inside test_proxies is not held back for ever.  When the user fetches or
\* starts a test cycle is left open.
Fairness == WF_vars(CycleStep)

SpecFair == Init /\ [][Next]_vars /\ Fairness

(***************************************************************************)
(* The scoring of test_proxy over long URL lists: test_urls is configured  *)
(* with one URL after the other, up to MaxRatioTargets; a call over the n  *)
(* URLs configured runs its for loop in one step, the first s requests     *)
(* answering 200 and the others timing out, for every s up to n.           *)
(***************************************************************************)
CountedRun(s, i) == IF i <= s THEN OkIn(123) ELSE Raises("ConnectTimeout")

\* The local results after that run (RunLoop over it, written out);
\* total_time is then 123 ms for each of the s answers.
LoopExitResults(n, s) == [i \in 1..n |-> ProbeResult(i, CountedRun(s, i))]

ScoringInit ==
    /\ test_urls = Urls(1)
    /\ v_proxy = <<Candidate(1)>>
    /\ v_pc = "loop"
    /\ v_i = 1
    /\ v_outs = <<>>
    /\ results = <<>>
    /\ total_time = 0
    /\ success_count = 0
    /\ v_ret = <<>>
    /\ EngineOff

\* The whole for loop, s of the requests answering.
CountedLoop(s) ==
    /\ v_pc = "loop"
    /\ v_i = 1
    /\ v_i' = Len(test_urls) + 1
    /\ v_outs' = [i \in 1..Len(test_urls) |-> CountedRun(s, i)]
    /\ results' = LoopExitResults(Len(test_urls), s)
    /\ total_time' = 123 * s
    /\ success_count' = s
    /\ UNCHANGED <<test_urls, v_proxy, v_pc, v_ret>>
    /\ UNCHANGED engineVars

\* One more target URL is configured before the call is made.
AddTestUrl ==
    /\ v_pc = "loop"
    /\ v_i = 1
    /\ Len(test_urls) < MaxRatioTargets
    /\ test_urls' = Urls(Len(test_urls) + 1)
    /\ UNCHANGED validatorVars
    /\ UNCHANGED engineVars

ScoringNext ==
    \/ AddTestUrl
    \/ \E s \in 0..Len(test_urls) : CountedLoop(s)
    \/ Return

SpecScoring == ScoringInit /\ [][ScoringNext]_vars

(***************************************************************************)
(* Properties of ProxyValidator.test_proxy (SpecValidator, SpecScoring).   *)
(***************************************************************************)
Abs(x) == IF x < 0 THEN -x ELSE x

Returned == v_pc = "returned"

\* The requests of the call that answered 200, and their elapsed times summed.
Answered == {i \in 1..Len(v_outs) : v_outs[i].kind = "response" /\ v_outs[i].code = 200}

RECURSIVE ElapsedOver(_)
ElapsedOver(I) ==
    IF I = {} THEN 0
    ELSE LET i == CHOOSE j \in I : TRUE
         IN  v_outs[i].elapsed + ElapsedOver(I \ {i})

\* The test outcomes of the returned dict flagged as successes.
Successes == {i \in 1..Len(v_ret[1].test_details) : v_ret[1].test_details[i].success}

\* C4 as claimed: the status is decided by the success ratio s/n alone, with
\* the thresholds 0.666 and 0: 'active' iff s/n >= 0.666, 'unreliable' iff
\* 0 < s/n < 0.666, 'dead' iff s = 0, for every number n of targets.
C4_StatusByRatio ==
    Returned =>
        LET n == Len(test_urls)
            s == Cardinality(Successes)
            st == v_ret[1].status
        IN  /\ (st = "active") <=> (1000 * s >= 666 * n)
            /\ (st = "unreliable") <=> (s > 0 /\ 1000 * s < 666 * n)
            /\ (st = "dead") <=> (s = 0)

\* C4 as amended: the status is decided by the success rate rounded to one
\* decimal percentage point (within half a tenth of a percent of 100 s/n):
\* 'active' iff the rounded rate >= 66.6, 'unreliable' iff it is between 0
\* and 66.6, 'dead' iff it is 0; for fewer than 287 targets that agrees with
\* the thresholds 0.666 and 0 on s/n itself.
C4_StatusByRoundedRate ==
    Returned =>
        LET n == Len(test_urls)
            s == Cardinality(Successes)
            rate == v_ret[1].success_rate
            st == v_ret[1].status
        IN  /\ 2 * Abs(rate * n - 1000 * s) <= n
            /\ (st = "active") <=> (rate >= 666)
            /\ (st = "unreliable") <=> (rate > 0 /\ rate < 666)
            /\ (st = "dead") <=> (rate = 0)
            /\ n < 287 =>
                 /\ (st = "active") <=> (1000 * s >= 666 * n)
                 /\ (st = "unreliable") <=> (s > 0 /\ 1000 * s < 666 * n)
                 /\ (st = "dead") <=> (s = 0)

\* C4 witness: 191 answers of 287, a ratio below 0.666, scored 'active'.
C4_Witness ==
    /\ Returned
    /\ Len(test_urls) = 287
    /\ Cardinality(Successes) = 191
    /\ v_ret[1].success_rate = 666
    /\ v_ret[1].status = "active"

\* C7: test_proxy makes one request per target URL, in the order of the
\* list, and records exactly one outcome for each request whatever it did;
\* the returned test_details is that list, as long as test_urls.
C7_OneOutcomePerUrl ==
    v_pc \in {"loop", "returned"} =>
        /\ Len(v_outs) = v_i - 1
        /\ Len(results) = Len(v_outs)
        /\ \A i \in 1..Len(results) :
              /\ results[i].url = test_urls[i]
              /\ results[i].success <=> (i \in Answered)
        /\ Returned =>
              /\ v_ret[1].test_details = results
              /\ Len(v_ret[1].test_details) = Len(test_urls)

\* C7 witness: a returned call over three URLs whose requests raised, got
\* an HTTP error and succeeded.
C7_Witness ==
    /\ Returned
    /\ Len(test_urls) = 3
    /\ v_outs[1].kind = "Other"
    /\ v_outs[2].kind = "response" /\ v_outs[2].code = 404
    /\ v_outs[3].kind = "response" /\ v_outs[3].code = 200
    /\ Len(v_ret[1].test_details) = 3

\* C8: the success rate of a returned dict lies in 0..100 percent and is the
\* number of successful test outcomes over the number of test outcomes,
\* rounded to one decimal percentage point.
C8_SuccessRateIsRoundedRatio ==
    Returned =>
        LET n == Len(v_ret[1].test_details)
            s == Cardinality(Successes)
            rate == v_ret[1].success_rate
        IN  /\ rate >= 0 /\ rate <= 1000
            /\ 2 * Abs(rate * n - 1000 * s) <= n

\* C8 witness: two successes of three outcomes, 66.7 percent.
C8_Witness ==
    /\ Returned
    /\ Len(v_ret[1].test_details) = 3
    /\ Cardinality(Successes) = 2
    /\ v_ret[1].success_rate = 667

\* C9: the mean response time of a returned dict is -1 exactly when no
\* request succeeded (no test outcome is a success); otherwise it is the mean of the
\* elapsed times of the successful requests alone, rounded to 0.01 s; every
\* failed request's own response_time is -1.
C9_MeanTimeOverSuccessesOnly ==
    Returned =>
        LET avg == v_ret[1].response_time
            k == Cardinality(Answered)
        IN  /\ (avg = -1) <=> (Answered = {})
            /\ (avg = -1) <=> (Successes = {})
            /\ Answered # {} =>
                  2 * Abs(10 * k * avg - ElapsedOver(Answered)) <= 10 * k
            /\ \A i \in 1..Len(v_ret[1].test_details) :
                  i \notin Answered => v_ret[1].test_details[i].response_time = -1

\* C9 witness: answers after 337 ms and 123 ms around an HTTP 404 that took
\* 123 ms: the mean is 0.23 s.
C9_Witness ==
    /\ Returned
    /\ Len(test_urls) = 3
    /\ v_outs[1] = OkIn(337)
    /\ v_outs[2].kind = "response" /\ v_outs[2].code = 404 /\ v_outs[2].elapsed = 123
    /\ v_outs[3] = OkIn(123)
    /\ v_ret[1].response_time = 23

(***************************************************************************)
(* Properties of ProxyMaster's test cycle (Spec).                          *)
(***************************************************************************)

\* A test cycle has run to its end, and none has started since.
CycleEnded == pc = "idle" /\ saved # <<>>

\* The futures of the cycle that returned a dict, and those that raised.
Done == {i \in 1..Len(futures) : futures[i].state = "done"}
Raised == {i \in 1..Len(futures) : futures[i].state = "raised"}
Outcome(i) == futures[i].result[1]

\* The engine holds a scored record of the endpoint ip with status st: in
\* proxy_data or in active_proxies.
Holds(ip, st) ==
    \/ \E k \in 1..Len(proxy_data) : proxy_data[k].ip = ip /\ proxy_data[k].status = st
    \/ \E k \in 1..Len(active_proxies) :
          active_proxies[k].ip = ip /\ active_proxies[k].status = st

\* The same with an error recorded.
HoldsFailed(ip, st) ==
    \/ \E k \in 1..Len(proxy_data) :
          proxy_data[k].ip = ip /\ proxy_data[k].status = st /\ proxy_data[k].error # {}
    \/ \E k \in 1..Len(active_proxies) :
          /\ active_proxies[k].ip = ip /\ active_proxies[k].status = st
          /\ active_proxies[k].error # {}

\* The snapshot of the cycle carries a scored record of ip with status st.
SnapshotHolds(ip, st) ==
    \/ \E k \in 1..Len(saved[1].proxies) :
          saved[1].proxies[k].ip = ip /\ saved[1].proxies[k].status = st
    \/ \E k \in 1..Len(saved[1].active_proxies) :
          saved[1].active_proxies[k].ip = ip /\ saved[1].active_proxies[k].status = st

\* C1: at the end of a cycle, an endpoint whose validation raised is recorded
\* as one scored outcome with status 'dead' and an error, and every other
\* endpoint of the batch has its own 'active'/'unreliable'/'dead' outcome.
C1_FaultRecordedAsDead ==
    CycleEnded =>
        /\ \A i \in Raised : HoldsFailed(proxy_data[i].ip, "dead")
        /\ \A i \in 1..Len(futures) :
              i \notin Raised =>
                 /\ i \in Done
                 /\ Outcome(i).status \in {"active", "unreliable", "dead"}

\* C2: at the end of a cycle the engine holds the scored outcome of every
\* submitted candidate, whatever its status.
C2_AllOutcomesHeld ==
    CycleEnded =>
        \A i \in Done : Holds(proxy_data[i].ip, Outcome(i).status)

\* C3: between cycles, current_proxy is None when active_proxies is empty
\* and the head of active_proxies otherwise.
C3_SelectionFollowsActiveSet ==
    pc = "idle" =>
        IF active_proxies = <<>> THEN current_proxy = <<>>
        ELSE current_proxy = <<active_proxies[1]>>

\* The positions of a sequence whose element has the sort key of x.
SameKey(s, x) ==
    {k \in 1..Len(s) : s[k].success_rate = x.success_rate
                       /\ s[k].response_time = x.response_time}

\* The elements of s at the positions P, in their order in s.
RECURSIVE Pick(_, _)
Pick(s, P) ==
    IF P = {} THEN <<>>
    ELSE LET m == CHOOSE k \in P : \A j \in P : k >= j
         IN  Append(Pick(s, P \ {m}), s[m])

\* C5: after select_best_proxy, active_proxies is in the order of success
\* rate descending, then response time ascending; elements equal on both
\* keys are in the order in which they were appended (the order of the
\* snapshot, written before the sort); sorting it again changes nothing.
C5_SortedStable ==
    CycleEnded =>
        /\ Len(active_proxies) = Len(saved[1].active_proxies)
        /\ \A i, j \in 1..Len(active_proxies) :
              i < j =>
                 \/ active_proxies[i].success_rate > active_proxies[j].success_rate
                 \/ /\ active_proxies[i].success_rate = active_proxies[j].success_rate
                    /\ active_proxies[i].response_time <= active_proxies[j].response_time
        /\ \A k \in 1..Len(active_proxies) :
              Pick(active_proxies, SameKey(active_proxies, active_proxies[k]))
                 = Pick(saved[1].active_proxies,
                        SameKey(saved[1].active_proxies, active_proxies[k]))
        /\ SortByKey(active_proxies) = active_proxies

\* C5 witness: two active endpoints of equal success rate were appended the
\* slower one first, and the sort has put the faster one first.
C5_Witness ==
    /\ CycleEnded
    /\ Len(active_proxies) = 2
    /\ active_proxies[1].success_rate = active_proxies[2].success_rate
    /\ active_proxies[1].response_time < active_proxies[2].response_time
    /\ saved[1].active_proxies = <<active_proxies[2], active_proxies[1]>>

\* The number of positions of a sequence that hold r.
Count(s, r) == Cardinality({k \in 1..Len(s) : s[k] = r})

\* C6: at the end of a cycle active_proxies holds exactly the outcomes of
\* this cycle whose status is 'active', each once (an outcome's success flag
\* is true exactly when its status is 'active'), and nothing else.
C6_ActiveSetIsThisCyclesActives ==
    CycleEnded =>
        /\ \A i \in Done : Outcome(i).success <=> (Outcome(i).status = "active")
        /\ Len(active_proxies)
              = Cardinality({i \in Done : Outcome(i).status = "active"})
        /\ \A k \in 1..Len(active_proxies) :
              /\ active_proxies[k].status = "active"
              /\ Count(active_proxies, active_proxies[k])
                    = Cardinality({i \in Done : Outcome(i) = active_proxies[k]})

\* C6 witness: the second cycle ends with one active and one unreliable
\* outcome, after a first cycle that had selected an endpoint.
C6_Witness ==
    /\ CycleEnded
    /\ cycles = 2
    /\ Len(futures) = 2
    /\ saved[1].current_proxy # <<>>
    /\ \E i, j \in Done :
          /\ Outcome(i).status = "active"
          /\ Outcome(j).status = "unreliable"
          /\ active_proxies = <<Outcome(i)>>

\* C10: the snapshot a cycle writes carries the endpoint selected from this
\* cycle's active set as its current_proxy, and the scored outcomes of this
\* cycle in its endpoint set.
C10_SnapshotOfThisCycle ==
    CycleEnded =>
        /\ active_proxies # <<>> => saved[1].current_proxy = <<active_proxies[1]>>
        /\ \A i \in Done : SnapshotHolds(proxy_data[i].ip, Outcome(i).status)

(***************************************************************************)
(* Fetch cycles.                                                           *)
(***************************************************************************)

\* The candidates one fetch_proxies call gathers from its providers.
Fetched(batch) == [i \in 1..Len(batch) |-> Candidate(batch[i])]

\* C11: a fetch replaces the candidate set: after a fetch_proxies call that
\* returned candidates, proxy_data holds the candidates of that fetch only,
\* so the next test cycle submits no candidate of an earlier fetch.
C11_FetchReplacesCandidates ==
    [][\A batch \in Batches : FetchProxies(batch) => proxy_data' = Fetched(batch)]_vars

(***************************************************************************)
(* The classification of a request's outcome.                              *)
(***************************************************************************)

\* The outcome classes a recorded test outcome falls into.
Classes(r) ==
    {c \in {"success", "http", "proxy", "timeout", "tls", "other"} :
        \/ c = "success" /\ r.success /\ r.error = ""
        \/ c = "http" /\ ~r.success /\ r.status_code # 0
                      /\ r.error = HttpError(r.status_code)
        \/ c = "proxy" /\ ~r.success /\ r.error = "Proxy Error"
        \/ c = "timeout" /\ ~r.success /\ r.error = "Timeout"
        \/ c = "tls" /\ ~r.success /\ r.error = "SSL Error"
        \/ c = "other" /\ ~r.success /\ r.status_code = 0
                       /\ r.error \notin {"", "Proxy Error", "Timeout", "SSL Error"}}

\* The requests that got no response within the timeout window.
TimedOut == {i \in 1..Len(v_outs) : v_outs[i].kind \in {"ConnectTimeout", "ReadTimeout"}}

\* C14: every request of test_proxy is recorded in exactly one outcome
\* class, whatever it did, and a request that timed out, on the connection
\* or on the read of the response, is recorded with the error 'Timeout'.
C14_TimeoutsRecordedAsTimeout ==
    v_pc \in {"loop", "returned"} =>
        /\ Len(results) = Len(v_outs)
        /\ \A i \in 1..Len(results) : Cardinality(Classes(results[i])) = 1
        /\ \A i \in TimedOut : results[i].error = "Timeout"

(***************************************************************************)
(* The pool of test_proxies.                                               *)
(***************************************************************************)

Queued == {i \in 1..Len(futures) : futures[i].state = "queued"}

\* How far the call of a future has got: not started, running, ended.
Rank(f) == CASE f.state = "queued" -> 0 [] f.state = "running" -> 1 [] OTHER -> 2

\* C12: during test_proxies at most max_threads endpoints are being
\* validated at a time, a candidate beyond that waits for a free worker, and
\* every submitted candidate is validated exactly once: one future per
\* candidate, whose call starts only below the limit, never starts again
\* once started, keeps its outcome once ended, and has ended at the end of
\* the cycle.
C12_AtMostMaxThreadsEachOnce ==
    /\ [](/\ Cardinality(Running) <= max_threads
          /\ InCycle => Len(futures) = Len(proxy_data)
          /\ \A i \in Done : Outcome(i).ip = proxy_data[i].ip
          /\ CycleEnded => Done \cup Raised = 1..Len(futures))
    /\ [][InCycle =>
            /\ Len(futures') = Len(futures)
            /\ \A i \in 1..Len(futures) :
                  /\ Rank(futures'[i]) \in {Rank(futures[i]), Rank(futures[i]) + 1}
                  /\ Rank(futures[i]) = 0 /\ Rank(futures'[i]) = 1
                        => Cardinality(Running) < max_threads
                  /\ Rank(futures[i]) = 2
                        => /\ futures'[i].state = futures[i].state
                           /\ futures'[i].result = futures[i].result]_vars

\* C12 witness: more candidates than workers, every worker busy and a
\* candidate waiting in the queue.
C12_Witness ==
    /\ InCycle
    /\ Len(futures) > max_threads
    /\ Cardinality(Running) = max_threads
    /\ Queued # {}

(***************************************************************************)
(* The appends to active_proxies.                                          *)
(***************************************************************************)

\* The futures whose result the as_completed loop has appended.
Appended ==
    {i \in Done : Outcome(i).success /\ (futures[i].collected \/ (i = future /\ pc = "release"))}

\* C15: appends to active_proxies during test_proxies are mutually
\* exclusive: the list grows only in a step of the thread that holds
\* validator.lock, which one thread at a time holds and only inside the with
\* block, each such step appends exactly the result of the future in hand,
\* and no result is lost or duplicated, the list holding one entry for each
\* successful future handled so far, whatever the worker threads do
\* meanwhile.
C15_AppendsUnderLock ==
    /\ [](/\ lock \in {"free", "main"}
          /\ lock = "main" <=> pc \in {"append", "release"}
          /\ InCycle =>
                /\ Len(active_proxies) = Cardinality(Appended)
                /\ \A i \in Appended :
                      Count(active_proxies, Outcome(i))
                        = Cardinality({j \in Appended : Outcome(j) = Outcome(i)}))
    /\ [][Len(active_proxies') > Len(active_proxies) =>
            /\ lock = "main" /\ lock' = "main"
            /\ active_proxies' = Append(active_proxies, Outcome(future))
            /\ UNCHANGED futures]_vars

\* C15 witness: the main thread has appended a result and still holds the
\* lock while a worker thread is running the call of another candidate.
C15_Witness ==
    /\ pc = "release"
    /\ lock = "main"
    /\ Len(active_proxies) = 1
    /\ Running # {}

(***************************************************************************)
(* The end of a test cycle.                                                *)
(***************************************************************************)

\* C13: with every call of test_proxy ending, every call of test_proxies
\* finishes: from any point inside it the main thread gets to its end, with
\* the call of every submitted candidate returned or raised, every future
\* handled by the loop, the lock free and the results saved.
C13_TestProxiesFinishes ==
    InCycle ~> (/\ CycleEnded
                /\ Done \cup Raised = 1..Len(futures)
                /\ \A i \in 1..Len(futures) : futures[i].collected
                /\ lock = "free")

\* C13 witness: a finished cycle over two candidates, the call of one
\* returned and the call of the other raised.
C13_Witness ==
    /\ CycleEnded
    /\ Len(futures) = 2
    /\ Done # {}
    /\ Raised # {}

====
